---- MODULE Spec2Model ----
(***************************************************************************)
(* A model of the Tron template engine (src/src/lib.rs): TronTemplate,     *)
(* TronRef and TronAssembler.                                              *)
(*                                                                         *)
(* A Rust String is modelled as a sequence of one-character strings, so    *)
(* that the regex scan, str::trim and str::replace are computed character  *)
(* by character.  A HashMap<String, String> is a function from keys to     *)
(* values; its iteration order is unspecified, so every operation that     *)
(* iterates the map takes the order as an extra argument, and the actions  *)
(* choose it among all permutations of the key set.                        *)
(***************************************************************************)
EXTENDS Integers, Sequences, FiniteSets, TLC

(***************************************************************************)
(* Bounds of the model.                                                    *)
(***************************************************************************)
MaxHandles == 2      \* handles the client creates
MaxTemplates == 2    \* handles added to the assembler
MaxOps == 5          \* calls the client makes
MaxOpsAll == 4       \* calls the client of the whole API makes

(***************************************************************************)
(* Inputs of the client.                                                   *)
(***************************************************************************)
Newline == "\n"

Texts ==
    { <<>>,
      <<"x">>,
      <<"@", "[", "a", "]", "@">>,
      <<"@", "[", " ", "a", "\t", "]", "@">>,
      <<"@", "[", "a", "]", "@", "@", "[", "b", "]", "@">> }

Names == { <<"a">>, <<"b">> }

Values == { <<>>, <<"x">>, <<"@", "[", "b", "]", "@">> }

Deps == { "d1", "d2" }

(***************************************************************************)
(* Result<T> and TronError.                                                *)
(***************************************************************************)
MissingPlaceholder(name) == [kind |-> "MissingPlaceholder", name |-> name]

Ok(v) == [tag |-> "Ok", val |-> v]

Err(e) == [tag |-> "Err", err |-> e]

Unit == <<>>

IsOk(r) == r.tag = "Ok"

IsErr(r) == r.tag = "Err"

(***************************************************************************)
(* String helpers.                                                         *)
(***************************************************************************)
\* The characters of Unicode's White_Space property, which char::is_whitespace
\* tests and str::trim removes.  A character is a one-character string; a
\* character that a TLA+ string cannot hold is written as its code point.
WhiteSpace ==
    { "\t", "\n", "U+000B", "\f", "\r",
      " ", "U+0085", "U+00A0", "U+1680", "U+2000",
      "U+2001", "U+2002", "U+2003", "U+2004", "U+2005",
      "U+2006", "U+2007", "U+2008", "U+2009", "U+200A",
      "U+2028", "U+2029", "U+202F", "U+205F", "U+3000" }

IsWhitespace(c) == c \in WhiteSpace

RECURSIVE trim_start(_)
trim_start(s) ==
    IF s # <<>> /\ IsWhitespace(Head(s)) THEN trim_start(Tail(s)) ELSE s

RECURSIVE trim_end(_)
trim_end(s) ==
    IF s # <<>> /\ IsWhitespace(s[Len(s)])
    THEN trim_end(SubSeq(s, 1, Len(s) - 1))
    ELSE s

\* str::trim
trim(s) == trim_end(trim_start(s))

\* Whether pat occurs in s at index i.
HasAt(s, i, pat) ==
    /\ i + Len(pat) - 1 <= Len(s)
    /\ SubSeq(s, i, i + Len(pat) - 1) = pat

RECURSIVE replace_from(_, _, _, _)
replace_from(s, i, pat, val) ==
    IF i > Len(s) THEN <<>>
    ELSE IF HasAt(s, i, pat)
         THEN val \o replace_from(s, i + Len(pat), pat, val)
         ELSE <<s[i]>> \o replace_from(s, i + 1, pat, val)

\* str::replace: every non-overlapping occurrence of pat, left to right.
replace(s, pat, val) == replace_from(s, 1, pat, val)

(***************************************************************************)
(* The regex @\[([^]]+)\]@ .                                               *)
(***************************************************************************)
\* The index of the first "]" at or after j, or 0.
CloseFrom(s, j) ==
    LET C == {k \in j..Len(s) : s[k] = "]"}
    IN  IF C = {} THEN 0 ELSE CHOOSE k \in C : \A m \in C : k <= m

\* The index of the last character of the match that starts at i, or 0.
\* [^]]+ is greedy and cannot cross a "]", so it runs up to the first "]".
MatchEnd(s, i) ==
    IF i + 1 <= Len(s) /\ s[i] = "@" /\ s[i + 1] = "["
    THEN LET k == CloseFrom(s, i + 2)
         IN  IF k > i + 2 /\ k + 1 <= Len(s) /\ s[k + 1] = "@"
             THEN k + 1
             ELSE 0
    ELSE 0

\* captures_iter: group 1 of every non-overlapping match, left to right.
RECURSIVE captures_from(_, _)
captures_from(s, i) ==
    IF i > Len(s) THEN <<>>
    ELSE LET e == MatchEnd(s, i)
         IN  IF e = 0
             THEN captures_from(s, i + 1)
             ELSE <<SubSeq(s, i + 2, e - 2)>> \o captures_from(s, e + 1)

captures_iter(content) == captures_from(content, 1)

(***************************************************************************)
(* TronTemplate.                                                           *)
(***************************************************************************)
extract_placeholders(content) ==
    LET caps == captures_iter(content)
    IN  [placeholder \in {trim(caps[n]) : n \in DOMAIN caps} |-> <<>>]

TronTemplate_new(content) ==
    [content |-> content, placeholders |-> extract_placeholders(content)]

\* Fault variant of set: inserts without the contains_key check.
TronTemplate_set_insert(self, placeholder, value) ==
    [self |-> [self EXCEPT !.placeholders =
                  [k \in DOMAIN self.placeholders \cup {placeholder} |->
                      IF k = placeholder THEN value ELSE self.placeholders[k]]],
     res |-> Ok(Unit)]

TronTemplate_set(self, placeholder, value) ==
    IF placeholder \notin DOMAIN self.placeholders
    THEN [self |-> self, res |-> Err(MissingPlaceholder(placeholder))]
    ELSE [self |-> [self EXCEPT !.placeholders[placeholder] = value],
          res |-> Ok(Unit)]

\* The orders a HashMap with these keys may be iterated in.
IterOrders(placeholders) ==
    LET K == DOMAIN placeholders
    IN  {o \in [1..Cardinality(K) -> K] :
            \A i, j \in 1..Cardinality(K) : o[i] = o[j] => i = j}

\* Fault variant of render: substitutes without the is_empty check.
RECURSIVE render_loop_nocheck(_, _, _, _)
render_loop_nocheck(result, placeholders, order, n) ==
    IF n > Len(order) THEN Ok(result)
    ELSE LET placeholder == order[n]
             value == placeholders[placeholder]
             pattern == <<"@", "[">> \o placeholder \o <<"]", "@">>
         IN  render_loop_nocheck(replace(result, pattern, value),
                                 placeholders, order, n + 1)

RECURSIVE render_loop(_, _, _, _)
render_loop(result, placeholders, order, n) ==
    IF n > Len(order) THEN Ok(result)
    ELSE LET placeholder == order[n]
             value == placeholders[placeholder]
             pattern == <<"@", "[">> \o placeholder \o <<"]", "@">>
         IN  IF value = <<>>
             THEN Err(MissingPlaceholder(placeholder))
             ELSE render_loop(replace(result, pattern, value),
                              placeholders, order, n + 1)

TronTemplate_render(self, order) ==
    render_loop(self.content, self.placeholders, order, 1)

(***************************************************************************)
(* TronRef.                                                                *)
(***************************************************************************)
TronRef_new(template) == [template |-> template, dependencies |-> <<>>]

with_dependency(self, dependency) ==
    [self EXCEPT !.dependencies = Append(@, dependency)]

\* *self.inner_mut() = template: the accessor hands out the wrapped template
\* mutably, so a client can put another template in its place.
inner_mut(self, template) == [self EXCEPT !.template = template]

TronRef_set(self, placeholder, value) ==
    LET r == TronTemplate_set(self.template, placeholder, value)
    IN  [self |-> [self EXCEPT !.template = r.self], res |-> r.res]

TronRef_render(self, order) == TronTemplate_render(self.template, order)

\* Fault variant of set_ref: the absorbed dependencies go first.
set_ref_prepend(self, placeholder, template_ref, order) ==
    LET rendered == TronTemplate_render(template_ref.template, order)
    IN  IF IsErr(rendered) THEN [self |-> self, res |-> rendered]
        ELSE LET r == TronTemplate_set(self.template, placeholder, rendered.val)
             IN  IF IsErr(r.res) THEN [self |-> self, res |-> r.res]
                 ELSE [self |-> [template |-> r.self,
                                 dependencies |-> template_ref.dependencies
                                                  \o self.dependencies],
                       res |-> Ok(Unit)]

set_ref(self, placeholder, template_ref, order) ==
    LET rendered == TronTemplate_render(template_ref.template, order)
    IN  IF IsErr(rendered) THEN [self |-> self, res |-> rendered]
        ELSE LET r == TronTemplate_set(self.template, placeholder, rendered.val)
             IN  IF IsErr(r.res) THEN [self |-> self, res |-> r.res]
                 ELSE [self |-> [template |-> r.self,
                                 dependencies |-> self.dependencies
                                                  \o template_ref.dependencies],
                       res |-> Ok(Unit)]

(***************************************************************************)
(* TronAssembler.  self.templates is the variable templates.               *)
(***************************************************************************)
TronAssembler_new == <<>>

add_template(self, template) == Append(self, template)

\* Fault variant of set_global: binds every handle, without the
\* contains_key guard.
RECURSIVE set_global_loop_noskip(_, _, _, _)
set_global_loop_noskip(self, i, placeholder, value) ==
    IF i > Len(self) THEN [self |-> self, res |-> Ok(Unit)]
    ELSE LET r == TronRef_set(self[i], placeholder, value)
         IN  IF IsErr(r.res)
             THEN [self |-> [self EXCEPT ![i] = r.self], res |-> r.res]
             ELSE set_global_loop_noskip([self EXCEPT ![i] = r.self], i + 1,
                                         placeholder, value)

RECURSIVE set_global_loop(_, _, _, _)
set_global_loop(self, i, placeholder, value) ==
    IF i > Len(self) THEN [self |-> self, res |-> Ok(Unit)]
    ELSE IF placeholder \in DOMAIN self[i].template.placeholders
         THEN LET r == TronRef_set(self[i], placeholder, value)
              IN  IF IsErr(r.res)
                  THEN [self |-> [self EXCEPT ![i] = r.self], res |-> r.res]
                  ELSE set_global_loop([self EXCEPT ![i] = r.self], i + 1,
                                       placeholder, value)
         ELSE set_global_loop(self, i + 1, placeholder, value)

set_global(self, placeholder, value) ==
    set_global_loop(self, 1, placeholder, value)

\* orders[i] is the order in which the i-th clone of template_ref is rendered.
RECURSIVE set_ref_global_loop(_, _, _, _, _)
set_ref_global_loop(self, i, placeholder, template_ref, orders) ==
    IF i > Len(self) THEN [self |-> self, res |-> Ok(Unit)]
    ELSE IF placeholder \in DOMAIN self[i].template.placeholders
         THEN LET r == set_ref(self[i], placeholder, template_ref, orders[i])
              IN  IF IsErr(r.res)
                  THEN [self |-> [self EXCEPT ![i] = r.self], res |-> r.res]
                  ELSE set_ref_global_loop([self EXCEPT ![i] = r.self], i + 1,
                                           placeholder, template_ref, orders)
         ELSE set_ref_global_loop(self, i + 1, placeholder, template_ref, orders)

set_ref_global(self, placeholder, template_ref, orders) ==
    set_ref_global_loop(self, 1, placeholder, template_ref, orders)

\* Fault variant of render_all: each render is put in front of the result.
RECURSIVE render_all_loop_front(_, _, _, _)
render_all_loop_front(self, orders, i, result) ==
    IF i > Len(self) THEN [res |-> Ok(result), attempted |-> i - 1]
    ELSE LET r == TronRef_render(self[i], orders[i])
         IN  IF IsErr(r) THEN [res |-> r, attempted |-> i]
             ELSE render_all_loop_front(self, orders, i + 1,
                                        (r.val \o <<Newline>>) \o result)

\* Fault variant of render_all: a failing render does not stop the loop, and
\* the last failure is the one returned.
RECURSIVE render_all_loop_last(_, _, _, _)
render_all_loop_last(self, orders, i, result) ==
    IF i > Len(self) THEN [res |-> Ok(result), attempted |-> i - 1]
    ELSE LET r == TronRef_render(self[i], orders[i])
             rest == render_all_loop_last(self, orders, i + 1,
                         IF IsErr(r) THEN result
                         ELSE (result \o r.val) \o <<Newline>>)
         IN  IF IsErr(r) /\ IsOk(rest.res)
             THEN [res |-> r, attempted |-> rest.attempted]
             ELSE rest

\* orders[i] is the order in which the i-th handle is rendered; attempted
\* counts the handles whose render was called.
RECURSIVE render_all_loop(_, _, _, _)
render_all_loop(self, orders, i, result) ==
    IF i > Len(self) THEN [res |-> Ok(result), attempted |-> i - 1]
    ELSE LET r == TronRef_render(self[i], orders[i])
         IN  IF IsErr(r) THEN [res |-> r, attempted |-> i]
             ELSE render_all_loop(self, orders, i + 1,
                                  (result \o r.val) \o <<Newline>>)

render_all(self, orders) == render_all_loop(self, orders, 1, <<>>)

\* One iteration order for each handle of the list.
RECURSIVE OrdersFor(_)
OrdersFor(self) ==
    IF self = <<>> THEN {<<>>}
    ELSE {<<o>> \o rest : o \in IterOrders(Head(self).template.placeholders),
                          rest \in OrdersFor(Tail(self))}

(***************************************************************************)
(* The state: the handles the client holds, the assembler's handle list,   *)
(* the last call with its result, and the number of calls made.            *)
(***************************************************************************)
VARIABLES pool, templates, last, nops

vars == <<pool, templates, last, nops>>

Call(op, h, c, placeholder, value, res, attempted) ==
    [op |-> op, h |-> h, c |-> c, placeholder |-> placeholder,
     value |-> value, res |-> res, attempted |-> attempted]

Init ==
    /\ pool = <<>>
    /\ templates = TronAssembler_new
    /\ last = Call("init", 0, 0, <<>>, <<>>, Ok(Unit), 0)
    /\ nops = 0

\* let h = TronRef::new(TronTemplate::new(content)?)
New(content) ==
    /\ nops < MaxOps
    /\ Len(pool) < MaxHandles
    /\ pool' = Append(pool, TronRef_new(TronTemplate_new(content)))
    /\ last' = Call("new", Len(pool) + 1, 0, <<>>, content, Ok(Unit), 0)
    /\ nops' = nops + 1
    /\ UNCHANGED templates

\* h = h.with_dependency(dependency)
WithDependency(h, dependency) ==
    /\ nops < MaxOps
    /\ pool' = [pool EXCEPT ![h] = with_dependency(@, dependency)]
    /\ last' = Call("with_dependency", h, 0, <<>>, <<>>, Ok(Unit), 0)
    /\ nops' = nops + 1
    /\ UNCHANGED templates

\* h.set(placeholder, value)
Set(h, placeholder, value) ==
    /\ nops < MaxOps
    /\ LET r == TronRef_set(pool[h], placeholder, value)
       IN  /\ pool' = [pool EXCEPT ![h] = r.self]
           /\ last' = Call("set", h, 0, placeholder, value, r.res, 0)
    /\ nops' = nops + 1
    /\ UNCHANGED templates

\* *h.inner_mut() = TronTemplate::new(content)?
InnerMutNew(h, content) ==
    /\ nops < MaxOps
    /\ pool' = [pool EXCEPT ![h] = inner_mut(@, TronTemplate_new(content))]
    /\ last' = Call("inner_mut", h, 0, <<>>, content, Ok(Unit), 0)
    /\ nops' = nops + 1
    /\ UNCHANGED templates

\* *h.inner_mut() = c.inner().clone()
InnerMutClone(h, c) ==
    /\ nops < MaxOps
    /\ c # h
    /\ pool' = [pool EXCEPT ![h] = inner_mut(@, pool[c].template)]
    /\ last' = Call("inner_mut", h, c, <<>>, pool[c].template.content,
                    Ok(Unit), 0)
    /\ nops' = nops + 1
    /\ UNCHANGED templates

\* h.render()
Render(h) ==
    /\ nops < MaxOps
    /\ \E order \in IterOrders(pool[h].template.placeholders) :
           last' = Call("render", h, 0, <<>>, <<>>,
                        TronRef_render(pool[h], order), 0)
    /\ nops' = nops + 1
    /\ UNCHANGED <<pool, templates>>

\* h.set_ref(placeholder, c.clone())
SetRef(h, placeholder, c) ==
    /\ nops < MaxOps
    /\ \E order \in IterOrders(pool[c].template.placeholders) :
           LET r == set_ref(pool[h], placeholder, pool[c], order)
           IN  /\ pool' = [pool EXCEPT ![h] = r.self]
               /\ last' = Call("set_ref", h, c, placeholder, <<>>, r.res, 0)
    /\ nops' = nops + 1
    /\ UNCHANGED templates

\* assembler.add_template(h.clone())
AddTemplate(h) ==
    /\ nops < MaxOps
    /\ Len(templates) < MaxTemplates
    /\ templates' = add_template(templates, pool[h])
    /\ last' = Call("add_template", h, 0, <<>>, <<>>, Ok(Unit), 0)
    /\ nops' = nops + 1
    /\ UNCHANGED pool

\* assembler.set_global(placeholder, value)
SetGlobal(placeholder, value) ==
    /\ nops < MaxOps
    /\ LET r == set_global(templates, placeholder, value)
       IN  /\ templates' = r.self
           /\ last' = Call("set_global", 0, 0, placeholder, value, r.res, 0)
    /\ nops' = nops + 1
    /\ UNCHANGED pool

\* assembler.set_ref_global(placeholder, c.clone())
SetRefGlobal(placeholder, c) ==
    /\ nops < MaxOps
    /\ \E orders \in [1..Len(templates) ->
                         IterOrders(pool[c].template.placeholders)] :
           LET r == set_ref_global(templates, placeholder, pool[c], orders)
           IN  /\ templates' = r.self
               /\ last' = Call("set_ref_global", 0, c, placeholder, <<>>,
                               r.res, 0)
    /\ nops' = nops + 1
    /\ UNCHANGED pool

\* assembler.render_all()
RenderAll ==
    /\ nops < MaxOps
    /\ \E orders \in OrdersFor(templates) :
           LET r == render_all(templates, orders)
           IN  last' = Call("render_all", 0, 0, <<>>, <<>>, r.res, r.attempted)
    /\ nops' = nops + 1
    /\ UNCHANGED <<pool, templates>>

(***************************************************************************)
(* Two clients.  A handle added to the assembler, or composed into another *)
(* handle, is a copy: the client's handles and the assembler's list never  *)
(* alias, so the handle API and the assembler API are explored by one      *)
(* client each.  Spec is a client of TronTemplate and TronRef; SpecAsm is  *)
(* a client that builds handles and drives them through a TronAssembler.   *)
(***************************************************************************)
Next ==
    \/ \E content \in Texts : New(content)
    \/ \E h \in DOMAIN pool, dependency \in Deps : WithDependency(h, dependency)
    \/ \E h \in DOMAIN pool, placeholder \in Names, value \in Values :
           Set(h, placeholder, value)
    \/ \E h \in DOMAIN pool, content \in Texts : InnerMutNew(h, content)
    \/ \E h \in DOMAIN pool, c \in DOMAIN pool : InnerMutClone(h, c)
    \/ \E h \in DOMAIN pool : Render(h)
    \/ \E h \in DOMAIN pool, placeholder \in Names, c \in DOMAIN pool :
           SetRef(h, placeholder, c)

Spec == Init /\ [][Next]_vars

NextAsm ==
    \/ \E content \in Texts : New(content)
    \/ \E h \in DOMAIN pool, dependency \in Deps : WithDependency(h, dependency)
    \/ \E h \in DOMAIN pool, placeholder \in Names, value \in Values :
           Set(h, placeholder, value)
    \/ \E h \in DOMAIN pool, content \in Texts : InnerMutNew(h, content)
    \/ \E h \in DOMAIN pool, c \in DOMAIN pool : InnerMutClone(h, c)
    \/ \E h \in DOMAIN pool : AddTemplate(h)
    \/ \E placeholder \in Names, value \in Values :
           SetGlobal(placeholder, value)
    \/ \E placeholder \in Names, c \in DOMAIN pool :
           SetRefGlobal(placeholder, c)
    \/ RenderAll

SpecAsm == Init /\ [][NextAsm]_vars

\* A client of the whole API: every call of both clients.  Its branching is
\* the widest of the three clients, so its number of calls has its own bound.
NextAll ==
    \/ \E content \in Texts : nops < MaxOpsAll /\ New(content)
    \/ \E h \in DOMAIN pool, dependency \in Deps :
           nops < MaxOpsAll /\ WithDependency(h, dependency)
    \/ \E h \in DOMAIN pool, placeholder \in Names, value \in Values :
           nops < MaxOpsAll /\ Set(h, placeholder, value)
    \/ \E h \in DOMAIN pool, content \in Texts :
           nops < MaxOpsAll /\ InnerMutNew(h, content)
    \/ \E h \in DOMAIN pool, c \in DOMAIN pool :
           nops < MaxOpsAll /\ InnerMutClone(h, c)
    \/ \E h \in DOMAIN pool : nops < MaxOpsAll /\ Render(h)
    \/ \E h \in DOMAIN pool, placeholder \in Names, c \in DOMAIN pool :
           nops < MaxOpsAll /\ SetRef(h, placeholder, c)
    \/ \E h \in DOMAIN pool : nops < MaxOpsAll /\ AddTemplate(h)
    \/ \E placeholder \in Names, value \in Values :
           nops < MaxOpsAll /\ SetGlobal(placeholder, value)
    \/ \E placeholder \in Names, c \in DOMAIN pool :
           nops < MaxOpsAll /\ SetRefGlobal(placeholder, c)
    \/ nops < MaxOpsAll /\ RenderAll

SpecAll == Init /\ [][NextAll]_vars

(***************************************************************************)
(* Vocabulary of the properties.                                           *)
(***************************************************************************)
Keys(ref) == DOMAIN ref.template.placeholders

Unbound(ref) == {k \in Keys(ref) : ref.template.placeholders[k] = <<>>}

Range(seq) == {seq[i] : i \in DOMAIN seq}

\* Every handle of the state: the client's and the assembler's.
AllRefs == Range(pool) \cup Range(templates)

(***************************************************************************)
(* C1  Closed-world binding: a set whose name is not a key of the          *)
(* placeholder map fails with MissingPlaceholder(name), whatever the       *)
(* value, and leaves the handle (content, keys, values, dependencies) as   *)
(* it was.                                                                 *)
(***************************************************************************)
C1_ClosedWorldBinding ==
    [][(last'.op = "set" /\ last'.placeholder \notin Keys(pool[last'.h]))
          => /\ last'.res = Err(MissingPlaceholder(last'.placeholder))
             /\ pool' = pool]_vars

\* A set of a non-empty value to an undeclared name of a template that
\* declares another name has failed.
C1_Witness ==
    /\ last.op = "set"
    /\ IsErr(last.res)
    /\ last.value # <<>>
    /\ last.placeholder \notin Keys(pool[last.h])
    /\ Keys(pool[last.h]) # {}

\* r, a result of rendering ref, is an error exactly when ref has an empty
\* value, and then names a placeholder of ref whose value is empty.
RenderBlockedIffUnbound(ref, r) ==
    /\ IsErr(r) <=> Unbound(ref) # {}
    /\ IsErr(r) => \E name \in Unbound(ref) : r = Err(MissingPlaceholder(name))

(***************************************************************************)
(* C2  Unbound-blocks-render: render fails iff some declared placeholder   *)
(* holds the empty string; the error is MissingPlaceholder of a            *)
(* placeholder whose value is empty, and carries no rendered text.  It     *)
(* holds of every iteration order of every handle, and of the result the   *)
(* last render call returned.                                              *)
(***************************************************************************)
C2_UnboundBlocksRender ==
    /\ \A h \in DOMAIN pool :
           \A order \in IterOrders(pool[h].template.placeholders) :
               RenderBlockedIffUnbound(pool[h], TronRef_render(pool[h], order))
    /\ last.op = "render" => RenderBlockedIffUnbound(pool[last.h], last.res)

\* A render has failed on a template with one placeholder bound and the
\* other one empty.
C2_Witness ==
    /\ last.op = "render"
    /\ IsErr(last.res)
    /\ Cardinality(Keys(pool[last.h])) = 2
    /\ Cardinality(Unbound(pool[last.h])) = 1

\* The content with each marker replaced by the value of its trimmed name.
RECURSIVE substitute_from(_, _, _)
substitute_from(s, i, placeholders) ==
    IF i > Len(s) THEN <<>>
    ELSE LET e == MatchEnd(s, i)
         IN  IF e = 0
             THEN <<s[i]>> \o substitute_from(s, i + 1, placeholders)
             ELSE placeholders[trim(SubSeq(s, i + 2, e - 2))]
                  \o substitute_from(s, e + 1, placeholders)

(***************************************************************************)
(* C3  Every marker replaced: when every placeholder is bound to a         *)
(* non-empty value, render succeeds and returns the content with every     *)
(* match of the marker pattern replaced by the value bound to the trimmed  *)
(* name of that match.                                                     *)
(***************************************************************************)
C3_EveryMarkerReplaced ==
    \A h \in DOMAIN pool :
        Unbound(pool[h]) = {} =>
            \A order \in IterOrders(pool[h].template.placeholders) :
                TronRef_render(pool[h], order)
                    = Ok(substitute_from(pool[h].template.content, 1,
                                         pool[h].template.placeholders))

\* Whether sub occurs in s.
Contains(s, sub) == \E i \in 1..(Len(s) + 1) : HasAt(s, i, sub)

(***************************************************************************)
(* C4  Composition flattening: after a successful set_ref(name, child)     *)
(* the value bound to name on the host is the string the child's render    *)
(* produced; and once the host's other placeholders are bound, the host's  *)
(* render succeeds and contains that string.                               *)
(***************************************************************************)
C4_CompositionFlattening ==
    (last.op = "set_ref" /\ IsOk(last.res)) =>
        LET host == pool[last.h]
            out == host.template.placeholders[last.placeholder]
        IN  /\ last.c # last.h =>
                   \E order \in IterOrders(pool[last.c].template.placeholders) :
                       TronRef_render(pool[last.c], order) = Ok(out)
            /\ Unbound(host) \subseteq {last.placeholder} =>
                   \A order \in IterOrders(host.template.placeholders) :
                       LET r == TronRef_render(host, order)
                       IN  IsOk(r) /\ Contains(r.val, out)

(***************************************************************************)
(* C5  Dependency merge order: with_dependency appends; a successful       *)
(* set_ref leaves the host's dependency list equal to its own list         *)
(* followed by the child's, and a failing set_ref leaves it as it was.     *)
(***************************************************************************)
C5_DependencyMergeOrder ==
    [][/\ last'.op = "with_dependency" =>
              \E d \in Deps :
                  pool'[last'.h].dependencies
                      = Append(pool[last'.h].dependencies, d)
       /\ last'.op = "set_ref" =>
              pool'[last'.h].dependencies
                  = IF IsOk(last'.res)
                    THEN pool[last'.h].dependencies
                         \o pool[last'.c].dependencies
                    ELSE pool[last'.h].dependencies]_vars

\* A child with dependencies has been composed into another handle that had
\* dependencies of its own, starting with a different one.
C5_Witness ==
    /\ last.op = "set_ref"
    /\ IsOk(last.res)
    /\ last.c # last.h
    /\ pool[last.c].dependencies # <<>>
    /\ Len(pool[last.h].dependencies) > Len(pool[last.c].dependencies)
    /\ pool[last.h].dependencies[1] # pool[last.c].dependencies[1]

(***************************************************************************)
(* C10  Render purity: the result of render is a function of the content   *)
(* and the bindings: whatever order the placeholder map is iterated in,    *)
(* render succeeds or fails alike and, when it succeeds, returns the same  *)
(* text.  (Which empty placeholder a failing render names is left open.)   *)
(***************************************************************************)
C10_RenderPure ==
    \A h \in DOMAIN pool :
        \A o1, o2 \in IterOrders(pool[h].template.placeholders) :
            LET r1 == TronRef_render(pool[h], o1)
                r2 == TronRef_render(pool[h], o2)
            IN  /\ IsOk(r1) <=> IsOk(r2)
                /\ IsOk(r1) /\ IsOk(r2) => r1.val = r2.val

\* after is before with child composed into placeholder.
Composed(before, after, placeholder, child) ==
    /\ \E order \in IterOrders(child.template.placeholders) :
           after.template
               = [before.template EXCEPT !.placeholders[placeholder] =
                     TronRef_render(child, order).val]
    /\ after.dependencies = before.dependencies \o child.dependencies

(***************************************************************************)
(* C6  Broadcast skip semantics.  set_global(name, v) succeeds, binds      *)
(* name to v in every handle that declares name and leaves the other       *)
(* handles as they were.  set_ref_global(name, child) leaves the handles   *)
(* that do not declare name as they were and never fails for their lack    *)
(* of name: it fails only with the child's render error, when some handle  *)
(* declares name; when it succeeds, every handle that declares name holds  *)
(* the child's render as the value of name and has absorbed the child's    *)
(* dependencies, its other bindings unchanged.                             *)
(***************************************************************************)
C6_BroadcastSkip ==
    [][/\ last'.op = "set_global" =>
              /\ last'.res = Ok(Unit)
              /\ Len(templates') = Len(templates)
              /\ \A i \in DOMAIN templates :
                     templates'[i]
                         = IF last'.placeholder \in Keys(templates[i])
                           THEN [templates[i] EXCEPT
                                    !.template.placeholders[last'.placeholder]
                                        = last'.value]
                           ELSE templates[i]
       /\ last'.op = "set_ref_global" =>
              LET name == last'.placeholder
                  child == pool[last'.c]
                  declaring == {i \in DOMAIN templates :
                                   name \in Keys(templates[i])}
              IN  /\ Len(templates') = Len(templates)
                  /\ \A i \in DOMAIN templates \ declaring :
                         templates'[i] = templates[i]
                  /\ IsErr(last'.res) =>
                         /\ declaring # {}
                         /\ \E order \in IterOrders(child.template.placeholders) :
                                last'.res = TronRef_render(child, order)
                         /\ templates' = templates
                  /\ IsOk(last'.res) =>
                         \A i \in declaring :
                             Composed(templates[i], templates'[i], name, child)
      ]_vars

\* A set_global of a non-empty value has run on an assembler that holds a
\* handle declaring the name and a handle that declares other names only.
C6_Witness ==
    /\ last.op = "set_global"
    /\ last.value # <<>>
    /\ \E i, j \in DOMAIN templates :
           /\ last.placeholder \in Keys(templates[i])
           /\ last.placeholder \notin Keys(templates[j])
           /\ Keys(templates[j]) # {}

\* The renders of refs, in order, each followed by a newline.
RECURSIVE JoinRenders(_, _)
JoinRenders(refs, orders) ==
    IF refs = <<>> THEN <<>>
    ELSE (TronRef_render(Head(refs), Head(orders)).val \o <<Newline>>)
         \o JoinRenders(Tail(refs), Tail(orders))

\* ref renders, whatever the iteration order.
Renders(ref) ==
    \A order \in IterOrders(ref.template.placeholders) :
        IsOk(TronRef_render(ref, order))

(***************************************************************************)
(* C7  Aggregate ordering: add_template appends to the list, and when      *)
(* every handle of the list renders, render_all returns the renders in     *)
(* list order, each followed by one newline (the empty string for an       *)
(* empty list).                                                            *)
(***************************************************************************)
C7_AggregateOrdering ==
    [][/\ last'.op = "add_template" =>
              templates' = templates \o <<pool[last'.h]>>
       /\ (last'.op = "render_all" /\ \A i \in DOMAIN templates :
                                          Renders(templates[i])) =>
              \E orders \in OrdersFor(templates) :
                  last'.res = Ok(JoinRenders(templates, orders))]_vars

\* render_all has succeeded on two handles whose renders differ.
C7_Witness ==
    /\ last.op = "render_all"
    /\ IsOk(last.res)
    /\ Len(templates) = 2
    /\ \A o1 \in IterOrders(templates[1].template.placeholders),
          o2 \in IterOrders(templates[2].template.placeholders) :
           TronRef_render(templates[1], o1) # TronRef_render(templates[2], o2)

\* ref fails to render.
Fails(ref) ==
    \E order \in IterOrders(ref.template.placeholders) :
        IsErr(TronRef_render(ref, order))

(***************************************************************************)
(* C8  Failure short-circuit: when some handle of the list fails to        *)
(* render, render_all fails with the error of the first such handle, and   *)
(* no handle after that one is rendered.                                   *)
(***************************************************************************)
C8_FailureShortCircuit ==
    (last.op = "render_all" /\ \E i \in DOMAIN templates : Fails(templates[i]))
        => LET failing == {i \in DOMAIN templates : Fails(templates[i])}
               first == CHOOSE i \in failing : \A j \in failing : i <= j
           IN  /\ IsErr(last.res)
               /\ \E order \in IterOrders(templates[first].template.placeholders) :
                      last.res = TronRef_render(templates[first], order)
               /\ last.attempted = first

\* render_all has failed on the first of two handles.
C8_Witness ==
    /\ last.op = "render_all"
    /\ IsErr(last.res)
    /\ Len(templates) = 2
    /\ last.attempted = 1

(***************************************************************************)
(* C9  Key-set invariant: the keys of every handle's placeholder map are   *)
(* the distinct trimmed names captured in its content, whatever calls      *)
(* were made.                                                              *)
(***************************************************************************)
C9_KeySetInvariant ==
    \A ref \in AllRefs :
        Keys(ref) = {trim(name) : name \in Range(captures_iter(ref.template.content))}

\* A direct set_ref of a renderable child to a name the handle does not
\* declare has failed, the handle declaring another name, while the
\* assembler holds a handle with a declared name.
C9_Witness ==
    /\ last.op = "set_ref"
    /\ IsErr(last.res)
    /\ Keys(pool[last.h]) # {}
    /\ last.placeholder \notin Keys(pool[last.h])
    /\ Unbound(pool[last.c]) = {}
    /\ \E i \in DOMAIN templates : Keys(templates[i]) # {}

====
